---- MODULE Spec2Model ----
(***************************************************************************)
(* Model of clash_lib/src/app/dns/dns_client.rs: the transport kind and    *)
(* its string forms, DnsClient::new_client (bootstrap resolution of the    *)
(* upstream address), DnsClient::exchange (connection state behind the     *)
(* write lock, lazy build and rebuild, request id assignment, send and     *)
(* answer wait) and dns_stream_builder.                                    *)
(*                                                                         *)
(* Strings that the code only compares with literals (the transport kind)  *)
(* are TLA+ strings.  Strings that the code parses or formats (the host)   *)
(* are sequences of one-character strings, so that parsing and formatting  *)
(* are computed.                                                           *)
(***************************************************************************)
EXTENDS Integers, Sequences, FiniteSets, TLC

(***************************************************************************)
(* Bounds of the model.                                                    *)
(***************************************************************************)
\* number of tasks that call exchange on the one client
NumCallers == 2
\* connections the Stream Builder can hand out in one behaviour
MaxConns == 2
\* the random draws considered are 0..MaxRand-1 and the largest u16
MaxRand == 1
\* the caller's message ids considered are 0..MaxMsgId
MaxMsgId == 1

\* u16: one more than the largest value
U16Mod == 65536

None == [tag |-> "None"]
Some(v) == [tag |-> "Some", v |-> v]
Ok(v) == [tag |-> "Ok", v |-> v]
Err(kind, msg) == [tag |-> "Err", kind |-> kind, msg |-> msg]

(***************************************************************************)
(* DNSNetMode, its Display and its FromStr.                                *)
(***************************************************************************)
DNSNetMode == {"Udp", "Tcp", "DoT", "DoH", "Dhcp"}

\* impl Display for DNSNetMode
DNSNetMode_fmt(self) ==
    CASE self = "Udp" -> "UDP"
      [] self = "Tcp" -> "TCP"
      [] self = "DoT" -> "DoT"
      [] self = "DoH" -> "DoH"
      [] self = "Dhcp" -> "DHCP"

\* a from_str that ignores the letter case of the names it knows
DNSNetMode_from_str_AnyCase(s) ==
    CASE s \in {"UDP", "udp"} -> Ok("Udp")
      [] s \in {"TCP", "tcp"} -> Ok("Tcp")
      [] s \in {"DoH", "DOH", "doh"} -> Ok("DoH")
      [] s \in {"DoT", "DOT", "dot"} -> Ok("DoT")
      [] s \in {"DHCP", "dhcp"} -> Ok("Dhcp")
      [] OTHER -> Err("DNSError", "unsupported protocol")

\* impl FromStr for DNSNetMode
DNSNetMode_from_str(s) ==
    CASE s = "UDP" -> Ok("Udp")
      [] s = "TCP" -> Ok("Tcp")
      [] s = "DoH" -> Ok("DoH")
      [] s = "DoT" -> Ok("DoT")
      [] s = "DHCP" -> Ok("Dhcp")
      [] OTHER -> Err("DNSError", "unsupported protocol")

(***************************************************************************)
(* Literal IPv4 addresses: str::parse::<IpAddr> and IpAddr::to_string,     *)
(* for hosts without ':' (no IPv6 literal is among the hosts).             *)
(***************************************************************************)
Digits == <<"0", "1", "2", "3", "4", "5", "6", "7", "8", "9">>

IsDigit(ch) == \E i \in 1..10 : Digits[i] = ch

DigitVal(ch) == (CHOOSE i \in 1..10 : Digits[i] = ch) - 1

\* the positions of the dots of s
DotsOf(s) == {i \in 1..Len(s) : s[i] = "."}

\* the value of a run of decimal digits
RECURSIVE DecVal(_)
DecVal(s) ==
    IF s = <<>> THEN 0
    ELSE 10 * DecVal(SubSeq(s, 1, Len(s) - 1)) + DigitVal(s[Len(s)])

\* one octet: 1 to 3 digits, no leading zero, at most 255
OctetOk(s) ==
    /\ Len(s) \in 1..3
    /\ \A i \in 1..Len(s) : IsDigit(s[i])
    /\ (Len(s) > 1 => s[1] # "0")
    /\ DecVal(s) <= 255

\* host.parse::<net::IpAddr>()
parse_ip(s) ==
    LET dots == DotsOf(s) IN
    IF Cardinality(dots) # 3 THEN Err("AddrParseError", "invalid IP address syntax")
    ELSE
      LET d1 == CHOOSE i \in dots : \A j \in dots : i <= j
          d3 == CHOOSE i \in dots : \A j \in dots : j <= i
          d2 == CHOOSE i \in dots : i # d1 /\ i # d3
          o1 == SubSeq(s, 1, d1 - 1)
          o2 == SubSeq(s, d1 + 1, d2 - 1)
          o3 == SubSeq(s, d2 + 1, d3 - 1)
          o4 == SubSeq(s, d3 + 1, Len(s))
      IN IF OctetOk(o1) /\ OctetOk(o2) /\ OctetOk(o3) /\ OctetOk(o4)
         THEN Ok(<<DecVal(o1), DecVal(o2), DecVal(o3), DecVal(o4)>>)
         ELSE Err("AddrParseError", "invalid IP address syntax")

\* the decimal form of n in 0..255
DecStr(n) ==
    IF n < 10 THEN <<Digits[n + 1]>>
    ELSE IF n < 100 THEN <<Digits[(n \div 10) + 1], Digits[(n % 10) + 1]>>
    ELSE <<Digits[(n \div 100) + 1], Digits[((n \div 10) % 10) + 1], Digits[(n % 10) + 1]>>

\* addr.ip().to_string()
ip_to_string(ip) ==
    DecStr(ip[1]) \o <<".">> \o DecStr(ip[2]) \o <<".">> \o DecStr(ip[3]) \o <<".">> \o DecStr(ip[4])

(***************************************************************************)
(* The configuration a client is built from.                               *)
(***************************************************************************)
HostLiteral == <<"1", ".", "2", ".", "3", ".", "4">>
HostDomain == <<"d", ".", "n", "s">>
HostBadOctet == <<"2", "5", "6", ".", "0", ".", "0", ".", "1">>
Hosts == {HostLiteral, HostDomain, HostBadOctet}

IpOfLiteral == <<1, 2, 3, 4>>
IpOther == <<8, 8, 4, 255>>
Ips == {IpOfLiteral, IpOther}

Ports == {53}

\* the transport strings a configuration may carry
NetStrings == {"UDP", "TCP", "DoT", "DoH", "DHCP", "udp", "DOH", "dot", ""}

\* a resolver is what it answers for the host: Ok(Some(ip)), Ok(None) or Err
Resolvers ==
    {[answer |-> Ok(Some(ip))] : ip \in Ips}
      \cup {[answer |-> Ok(None)], [answer |-> Err("io", "resolver failed")]}

(***************************************************************************)
(* DnsClient::new_client.  The value is the returned result together with  *)
(* the calls made to the resolver.                                         *)
(***************************************************************************)
EmptyInner == [c |-> None, bg_handle |-> None]

\* the DnsConfig variant built for each non-DHCP kind
DnsConfigOf(net, ip, opts) ==
    CASE net = "Udp" -> [kind |-> "Udp", addr |-> [ip |-> ip, port |-> opts.port], iface |-> opts.iface]
      [] net = "Tcp" -> [kind |-> "Tcp", addr |-> [ip |-> ip, port |-> opts.port], iface |-> opts.iface]
      [] net = "DoT" -> [kind |-> "Tls", addr |-> [ip |-> ip, port |-> opts.port],
                         host |-> opts.host, iface |-> opts.iface]
      [] net = "DoH" -> [kind |-> "Https", addr |-> [ip |-> ip, port |-> opts.port],
                         host |-> opts.host, iface |-> opts.iface]

\* a resolution that reports every failure as Error::DNSError
ResolveUpstream_AllDns(opts) ==
    IF opts.r.tag = "Some" THEN
        LET call == [host |-> opts.host, prefer_v4 |-> FALSE]
            ans == opts.r.v.answer
        IN IF ans.tag = "Err"
             THEN [ip |-> Err("DNSError", "resolve hostname failure"), calls |-> <<call>>]
           ELSE IF ans.v.tag = "Some"
             THEN [ip |-> Ok(ans.v.v), calls |-> <<call>>]
           ELSE [ip |-> Err("DNSError", "can't resolve default DNS"), calls |-> <<call>>]
    ELSE
        LET parsed == parse_ip(opts.host)
        IN IF parsed.tag = "Ok"
             THEN [ip |-> parsed, calls |-> <<>>]
             ELSE [ip |-> Err("DNSError", "resolve DNS hostname error"), calls |-> <<>>]

\* a resolution that takes a literal host as it is and asks the resolver only otherwise
ResolveUpstream_LiteralFirst(opts) ==
    LET parsed == parse_ip(opts.host)
    IN IF parsed.tag = "Ok" THEN [ip |-> parsed, calls |-> <<>>]
       ELSE IF opts.r.tag = "Some" THEN
         LET call == [host |-> opts.host, prefer_v4 |-> FALSE]
             ans == opts.r.v.answer
         IN IF ans.tag = "Err"
              THEN [ip |-> Err("anyhow", "resolve hostname failure"), calls |-> <<call>>]
            ELSE IF ans.v.tag = "Some"
              THEN [ip |-> Ok(ans.v.v), calls |-> <<call>>]
            ELSE [ip |-> Err("InvalidConfig", "can't resolve default DNS"), calls |-> <<call>>]
       ELSE [ip |-> Err("DNSError", "resolve DNS hostname error"), calls |-> <<>>]

\* the bootstrap resolution of the upstream host: the ip or the error, and the resolver calls
ResolveUpstream(opts) ==
    IF opts.r.tag = "Some" THEN
        LET call == [host |-> opts.host, prefer_v4 |-> FALSE]
            ans == opts.r.v.answer
        IN IF ans.tag = "Err"
             THEN [ip |-> Err("anyhow", "resolve hostname failure"), calls |-> <<call>>]
           ELSE IF ans.v.tag = "Some"
             THEN [ip |-> Ok(ans.v.v), calls |-> <<call>>]
           ELSE [ip |-> Err("InvalidConfig", "can't resolve default DNS"), calls |-> <<call>>]
    ELSE
        LET parsed == parse_ip(opts.host)
        IN IF parsed.tag = "Ok"
             THEN [ip |-> parsed, calls |-> <<>>]
             ELSE [ip |-> Err("DNSError", "resolve DNS hostname error"), calls |-> <<>>]

\* a constructor that finds the upstream address before it looks at the kind
new_client_ResolveFirst(opts) ==
    LET res == ResolveUpstream(opts)
    IN IF res.ip.tag = "Err"
         THEN [result |-> res.ip, calls |-> res.calls]
       ELSE IF opts.net = "Dhcp"
         THEN [result |-> Ok([type |-> "DhcpClient", iface |-> opts.host]), calls |-> res.calls]
       ELSE [result |-> Ok([type |-> "DnsClient",
                            inner |-> EmptyInner,
                            cfg |-> DnsConfigOf(opts.net, res.ip.v, opts),
                            host |-> opts.host,
                            port |-> opts.port,
                            net |-> opts.net,
                            iface |-> opts.iface]),
             calls |-> res.calls]

new_client(opts) ==
    IF opts.net = "Dhcp"
      THEN [result |-> Ok([type |-> "DhcpClient", iface |-> opts.host]), calls |-> <<>>]
    ELSE
      LET res == ResolveUpstream(opts)
      IN IF res.ip.tag = "Err"
           THEN [result |-> res.ip, calls |-> res.calls]
           ELSE [result |-> Ok([type |-> "DnsClient",
                                inner |-> EmptyInner,
                                cfg |-> DnsConfigOf(opts.net, res.ip.v, opts),
                                host |-> opts.host,
                                port |-> opts.port,
                                net |-> opts.net,
                                iface |-> opts.iface]),
                 calls |-> res.calls]

(***************************************************************************)
(* dns_stream_builder: what the built connection is configured with.       *)
(***************************************************************************)
ConnectTimeoutSecs == 5

\* a builder that also drops hostname verification for DNS-over-TLS by literal ip
stream_config_TlsToo(cfg) ==
    CASE cfg.kind = "Udp" ->
           [transport |-> "udp", addr |-> cfg.addr, iface |-> cfg.iface,
            timeout |-> Some(ConnectTimeoutSecs), tls |-> None]
      [] cfg.kind = "Tcp" ->
           [transport |-> "tcp", addr |-> cfg.addr, iface |-> cfg.iface,
            timeout |-> Some(ConnectTimeoutSecs), tls |-> None]
      [] cfg.kind = "Tls" ->
           [transport |-> "tls", addr |-> cfg.addr, iface |-> cfg.iface,
            timeout |-> Some(ConnectTimeoutSecs),
            tls |-> Some([alpn |-> <<"dot", "h2">>, server_name |-> cfg.host,
                          verify_hostname |-> ~(cfg.host = ip_to_string(cfg.addr.ip))])]
      [] cfg.kind = "Https" ->
           [transport |-> "https", addr |-> cfg.addr, iface |-> cfg.iface,
            timeout |-> None,
            tls |-> Some([alpn |-> <<"h2">>, server_name |-> cfg.host,
                          verify_hostname |-> ~(cfg.host = ip_to_string(cfg.addr.ip))])]

stream_config(cfg) ==
    CASE cfg.kind = "Udp" ->
           [transport |-> "udp", addr |-> cfg.addr, iface |-> cfg.iface,
            timeout |-> Some(ConnectTimeoutSecs), tls |-> None]
      [] cfg.kind = "Tcp" ->
           [transport |-> "tcp", addr |-> cfg.addr, iface |-> cfg.iface,
            timeout |-> Some(ConnectTimeoutSecs), tls |-> None]
      [] cfg.kind = "Tls" ->
           [transport |-> "tls", addr |-> cfg.addr, iface |-> cfg.iface,
            timeout |-> Some(ConnectTimeoutSecs),
            tls |-> Some([alpn |-> <<"dot", "h2">>, server_name |-> cfg.host,
                          verify_hostname |-> TRUE])]
      [] cfg.kind = "Https" ->
           [transport |-> "https", addr |-> cfg.addr, iface |-> cfg.iface,
            timeout |-> None,
            tls |-> Some([alpn |-> <<"h2">>, server_name |-> cfg.host,
                          verify_hostname |-> ~(cfg.host = ip_to_string(cfg.addr.ip))])]

(***************************************************************************)
(* State.                                                                  *)
(***************************************************************************)
VARIABLES
    config,     \* the configuration: transport string, host, port, iface, resolver
    net,        \* the parsed transport kind: None, or Some(result of from_str)
    shown,      \* None, or Some(the Display form of the parsed kind)
    made,       \* None, or Some(value of new_client)
    inner,      \* Inner behind the RwLock: [c, bg_handle], once a DnsClient exists
    holder,     \* the caller holding the write lock, 0 when it is free
    queue,      \* the callers waiting in self.inner.write().await, first come first
    pc,         \* where each caller's exchange call is
    msg,        \* the message each caller passed to exchange
    conns,      \* the connections built so far; connection k and its driver share the number k
    running,    \* the spawned driver tasks that have not finished
    call,       \* what each caller's call in progress has done so far
    last        \* the call that held the lock last and has returned: what it did and returned

vars == <<config, net, shown, made, inner, holder, queue, pc, msg, conns, running, call, last>>

Callers == 1..NumCallers

NoInner == [tag |-> "NoInner"]

MsgIds == 0..MaxMsgId
RandDraws == (0..(MaxRand - 1)) \cup {U16Mod - 1}
Contents == {"A"}
Messages == [id : MsgIds, content : Contents]

\* the record of a call that has not done anything yet
FreshCall ==
    [entered |-> FALSE,     \* it has acquired the lock
     inner0 |-> NoInner,    \* Inner when it acquired the lock
     prev |-> "none",       \* the outcome of the previous holder of the lock
     checked |-> "none",    \* what its check found: "absent", "finished", "running"
     built |-> <<>>,        \* the connections the Stream Builder gave it
     builds |-> 0,          \* the times it invoked the Stream Builder
     sent |-> <<>>]         \* the requests it handed to a session: [req, session]

\* no call has held the lock and returned yet
NoLast == [how |-> "none"]

\* the record of a call that returns: what it did, Inner as it leaves it, what it returns
Returned(c, m, how, value, state) ==
    [how |-> how, ret |-> value, inner1 |-> state, msg |-> m, inner0 |-> c.inner0,
     prev |-> c.prev, checked |-> c.checked, built |-> c.built, builds |-> c.builds,
     sent |-> c.sent]

\* no exchange has been called: the state of the callers, the lock and the drivers
NoCalls ==
    /\ holder = 0
    /\ queue = <<>>
    /\ pc = [p \in Callers |-> "idle"]
    /\ msg = [p \in Callers |-> None]
    /\ conns = <<>>
    /\ running = {}
    /\ call = [p \in Callers |-> FreshCall]
    /\ last = NoLast

\* before construction: any configuration, nothing parsed, no client
InitNew ==
    /\ config \in [transport : NetStrings, host : Hosts, port : Ports,
                   iface : {None}, r : {None} \cup {Some(r) : r \in Resolvers}]
    /\ net = None
    /\ shown = None
    /\ made = None
    /\ inner = NoInner
    /\ NoCalls

exchangeVars == <<inner, holder, queue, pc, msg, conns, running, call, last>>

(***************************************************************************)
(* Construction: the transport string is parsed, then new_client runs.     *)
(***************************************************************************)
ParseNet ==
    /\ net = None
    /\ net' = Some(DNSNetMode_from_str(config.transport))
    /\ UNCHANGED <<config, shown, made>>
    /\ UNCHANGED exchangeVars

\* the parsed kind is displayed (as in id() and in the Debug form of the client)
ShowNet ==
    /\ net.tag = "Some"
    /\ net.v.tag = "Ok"
    /\ shown = None
    /\ shown' = Some(DNSNetMode_fmt(net.v.v))
    /\ UNCHANGED <<config, net, made>>
    /\ UNCHANGED exchangeVars

OptsOf(cfg, kind) ==
    [r |-> cfg.r, host |-> cfg.host, port |-> cfg.port, net |-> kind, iface |-> cfg.iface]

NewClient ==
    /\ net.tag = "Some"
    /\ net.v.tag = "Ok"
    /\ made = None
    /\ LET out == new_client(OptsOf(config, net.v.v))
       IN /\ made' = Some(out)
          /\ inner' = IF out.result.tag = "Ok" /\ out.result.v.type = "DnsClient"
                        THEN out.result.v.inner
                        ELSE inner
    /\ UNCHANGED <<config, net, shown, holder, queue, pc, msg, conns, running, call, last>>

HasDnsClient ==
    /\ made.tag = "Some"
    /\ made.v.result.tag = "Ok"
    /\ made.v.result.v.type = "DnsClient"

ClientCfg == made.v.result.v.cfg

\* the configurations of the clients whose exchange is explored
ExchangeConfigs ==
    {[transport |-> "DoH", host |-> HostLiteral, port |-> 53, iface |-> None, r |-> None]}

\* after construction: new_client has returned a DnsClient, nobody has called exchange
Init ==
    /\ config \in ExchangeConfigs
    /\ net = Some(DNSNetMode_from_str(config.transport))
    /\ shown = None
    /\ made = Some(new_client(OptsOf(config, net.v.v)))
    /\ inner = made.v.result.v.inner
    /\ NoCalls

(***************************************************************************)
(* DnsClient::exchange, one action per stretch of code between two         *)
(* suspension points; the check of the driver and the send are steps of    *)
(* their own, since the driver runs in parallel with the caller.           *)
(***************************************************************************)
\* bg.is_finished()
is_finished(k) == k \notin running

\* DnsRequest::new(msg.clone(), DnsRequestOptions::default())
DnsRequest_new(m) == [message |-> m, options |-> "default"]

\* req.set_id(id)
set_id(req, id) == [req EXCEPT !.message.id = id]

\* rand::random::<u16>(): every value the draw can give, within the bounds
random_u16 == {r % U16Mod : r \in RandDraws}

\* a request construction that draws a new id whatever the id of the message
RequestsFor_AlwaysRandom(m) ==
    {set_id(DnsRequest_new(m), r) : r \in random_u16}

\* the requests exchange can construct from the caller's message
RequestsFor(m) ==
    LET req == DnsRequest_new(m)
    IN IF req.message.id = 0
         THEN {set_id(req, r) : r \in random_u16}
         ELSE {req}

\* exchange returns value: the write guard is dropped, the call is over
Return(p, how, value) ==
    /\ holder' = 0
    /\ pc' = [pc EXCEPT ![p] = "idle"]
    /\ msg' = [msg EXCEPT ![p] = None]
    /\ last' = Returned(call[p], msg[p], how, value, inner)
    /\ call' = [call EXCEPT ![p] = FreshCall]

\* a task calls exchange(msg) and starts waiting for the lock
Call(p, m) ==
    /\ HasDnsClient
    /\ pc[p] = "idle"
    /\ pc' = [pc EXCEPT ![p] = "lock"]
    /\ queue' = Append(queue, p)
    /\ msg' = [msg EXCEPT ![p] = Some(m)]
    /\ UNCHANGED <<config, net, shown, made, inner, holder, conns, running, call, last>>

\* an acquire that does not wait for the lock to be free
Acquire_NoWait(p) ==
    /\ pc[p] = "lock"
    /\ queue # <<>>
    /\ Head(queue) = p
    /\ holder' = p
    /\ queue' = Tail(queue)
    /\ pc' = [pc EXCEPT ![p] = "check"]
    /\ call' = [call EXCEPT ![p].entered = TRUE, ![p].inner0 = inner, ![p].prev = last.how]
    /\ UNCHANGED <<config, net, shown, made, inner, msg, conns, running, last>>

\* self.inner.write().await completes
Acquire(p) ==
    /\ pc[p] = "lock"
    /\ holder = 0
    /\ queue # <<>>
    /\ Head(queue) = p
    /\ holder' = p
    /\ queue' = Tail(queue)
    /\ pc' = [pc EXCEPT ![p] = "check"]
    /\ call' = [call EXCEPT ![p].entered = TRUE, ![p].inner0 = inner, ![p].prev = last.how]
    /\ UNCHANGED <<config, net, shown, made, inner, msg, conns, running, last>>

\* what the check can find
Found ==
    IF inner.bg_handle.tag = "Some"
      THEN IF is_finished(inner.bg_handle.v) THEN "finished" ELSE "running"
      ELSE "absent"

\* a check that gives the lock up before it builds
Check_ReleaseForBuild(p) ==
    /\ pc[p] = "check"
    /\ IF inner.bg_handle.tag = "Some"
         THEN IF is_finished(inner.bg_handle.v)
                THEN /\ pc' = [pc EXCEPT ![p] = "rebuild"]
                     /\ call' = [call EXCEPT ![p].checked = Found, ![p].builds = @ + 1]
                     /\ holder' = 0
                ELSE /\ pc' = [pc EXCEPT ![p] = "send"]
                     /\ call' = [call EXCEPT ![p].checked = Found]
                     /\ UNCHANGED holder
         ELSE /\ pc' = [pc EXCEPT ![p] = "init"]
              /\ call' = [call EXCEPT ![p].checked = Found, ![p].builds = @ + 1]
              /\ holder' = 0
    /\ UNCHANGED <<config, net, shown, made, inner, queue, msg, conns, running, last>>

\* a check that rebuilds whenever a driver handle is present, finished or not
Check_AlwaysRebuild(p) ==
    /\ pc[p] = "check"
    /\ IF inner.bg_handle.tag = "Some"
         THEN /\ pc' = [pc EXCEPT ![p] = "rebuild"]
              /\ call' = [call EXCEPT ![p].checked = Found, ![p].builds = @ + 1]
         ELSE /\ pc' = [pc EXCEPT ![p] = "init"]
              /\ call' = [call EXCEPT ![p].checked = Found, ![p].builds = @ + 1]
    /\ UNCHANGED <<config, net, shown, made, inner, holder, queue, msg, conns, running, last>>

\* if let Some(bg) = &inner.bg_handle { if bg.is_finished() {..} } else {..}
Check(p) ==
    /\ pc[p] = "check"
    /\ IF inner.bg_handle.tag = "Some"
         THEN IF is_finished(inner.bg_handle.v)
                THEN /\ pc' = [pc EXCEPT ![p] = "rebuild"]
                     /\ call' = [call EXCEPT ![p].checked = Found, ![p].builds = @ + 1]
                ELSE /\ pc' = [pc EXCEPT ![p] = "send"]
                     /\ call' = [call EXCEPT ![p].checked = Found]
         ELSE /\ pc' = [pc EXCEPT ![p] = "init"]
              /\ call' = [call EXCEPT ![p].checked = Found, ![p].builds = @ + 1]
    /\ UNCHANGED <<config, net, shown, made, inner, holder, queue, msg, conns, running, last>>

\* a build that stores the client handle and forgets the driver handle
BuildOk_ClientOnly(p) ==
    /\ pc[p] \in {"init", "rebuild"}
    /\ Len(conns) < MaxConns
    /\ LET k == Len(conns) + 1
       IN /\ conns' = Append(conns, stream_config(ClientCfg))
          /\ running' = running \cup {k}
          /\ inner' = [inner EXCEPT !.c = Some(k)]
          /\ call' = [call EXCEPT ![p].built = Append(@, k)]
    /\ pc' = [pc EXCEPT ![p] = "send"]
    /\ UNCHANGED <<config, net, shown, made, holder, queue, msg, last>>

\* a build that replaces the driver handle and keeps a client handle already there
BuildOk_KeepClient(p) ==
    /\ pc[p] \in {"init", "rebuild"}
    /\ Len(conns) < MaxConns
    /\ LET k == Len(conns) + 1
       IN /\ conns' = Append(conns, stream_config(ClientCfg))
          /\ running' = running \cup {k}
          /\ inner' = [c |-> IF inner.c.tag = "Some" THEN inner.c ELSE Some(k),
                       bg_handle |-> Some(k)]
          /\ call' = [call EXCEPT ![p].built = Append(@, k)]
    /\ pc' = [pc EXCEPT ![p] = "send"]
    /\ UNCHANGED <<config, net, shown, made, holder, queue, msg, last>>

\* a build that replaces the driver handle only
BuildOk_DriverOnly(p) ==
    /\ pc[p] \in {"init", "rebuild"}
    /\ Len(conns) < MaxConns
    /\ LET k == Len(conns) + 1
       IN /\ conns' = Append(conns, stream_config(ClientCfg))
          /\ running' = running \cup {k}
          /\ inner' = [inner EXCEPT !.bg_handle = Some(k)]
          /\ call' = [call EXCEPT ![p].built = Append(@, k)]
    /\ pc' = [pc EXCEPT ![p] = "send"]
    /\ UNCHANGED <<config, net, shown, made, holder, queue, msg, last>>

\* dns_stream_builder(&self.cfg).await gives Ok((client, bg)); both handles are replaced
BuildOk(p) ==
    /\ pc[p] \in {"init", "rebuild"}
    /\ Len(conns) < MaxConns
    /\ LET k == Len(conns) + 1
       IN /\ conns' = Append(conns, stream_config(ClientCfg))
          /\ running' = running \cup {k}
          /\ inner' = [c |-> Some(k), bg_handle |-> Some(k)]
          /\ call' = [call EXCEPT ![p].built = Append(@, k)]
    /\ pc' = [pc EXCEPT ![p] = "send"]
    /\ UNCHANGED <<config, net, shown, made, holder, queue, msg, last>>

\* a failed build that is ignored: the call goes on to send
BuildErr_FallThrough(p) ==
    /\ pc[p] \in {"init", "rebuild"}
    /\ pc' = [pc EXCEPT ![p] = "send"]
    /\ UNCHANGED <<config, net, shown, made, inner, holder, queue, msg, conns, running,
                   call, last>>

\* a failed build that also drops both handles
BuildErr_Clear(p) ==
    /\ pc[p] \in {"init", "rebuild"}
    /\ inner' = EmptyInner
    /\ holder' = 0
    /\ pc' = [pc EXCEPT ![p] = "idle"]
    /\ msg' = [msg EXCEPT ![p] = None]
    /\ last' = Returned(call[p], msg[p], "build_err", Err("DNSError", "build"), EmptyInner)
    /\ call' = [call EXCEPT ![p] = FreshCall]
    /\ UNCHANGED <<config, net, shown, made, queue, conns, running>>

\* a failed build that takes the client handle out and keeps the driver handle
BuildErr_DropClient(p) ==
    /\ pc[p] \in {"init", "rebuild"}
    /\ inner' = [inner EXCEPT !.c = None]
    /\ holder' = 0
    /\ pc' = [pc EXCEPT ![p] = "idle"]
    /\ msg' = [msg EXCEPT ![p] = None]
    /\ last' = Returned(call[p], msg[p], "build_err", Err("DNSError", "build"),
                        [inner EXCEPT !.c = None])
    /\ call' = [call EXCEPT ![p] = FreshCall]
    /\ UNCHANGED <<config, net, shown, made, queue, conns, running>>

\* dns_stream_builder(&self.cfg).await? gives Err: exchange returns it
BuildErr(p) ==
    /\ pc[p] \in {"init", "rebuild"}
    /\ Return(p, "build_err", Err("DNSError", "build"))
    /\ UNCHANGED <<config, net, shown, made, inner, queue, conns, running>>

\* the request is constructed, given its id and handed to inner.c.as_ref().unwrap();
\* the unwrap of an absent handle panics, which unwinds out of exchange
Send(p) ==
    /\ pc[p] = "send"
    /\ IF inner.c.tag = "Some"
         THEN /\ \E req \in RequestsFor(msg[p].v) :
                   call' = [call EXCEPT ![p].sent =
                                Append(@, [req |-> req, session |-> inner.c.v])]
              /\ pc' = [pc EXCEPT ![p] = "answer"]
              /\ UNCHANGED <<holder, msg, last>>
         ELSE Return(p, "panic", [tag |-> "Panic"])
    /\ UNCHANGED <<config, net, shown, made, inner, queue, conns, running>>

\* first_answer().await gives the answer
AnswerOk(p) ==
    /\ pc[p] = "answer"
    /\ Return(p, "ok", Ok("answer"))
    /\ UNCHANGED <<config, net, shown, made, inner, queue, conns, running>>

\* an answer error that is retried inside the call: back to the check of the driver
AnswerErr_Retry(p) ==
    /\ pc[p] = "answer"
    /\ pc' = [pc EXCEPT ![p] = "check"]
    /\ UNCHANGED <<config, net, shown, made, inner, holder, queue, msg, conns, running,
                   call, last>>

\* an answer error after which both handles are dropped at once
AnswerErr_DropHandles(p) ==
    /\ pc[p] = "answer"
    /\ inner' = EmptyInner
    /\ holder' = 0
    /\ pc' = [pc EXCEPT ![p] = "idle"]
    /\ msg' = [msg EXCEPT ![p] = None]
    /\ last' = Returned(call[p], msg[p], "answer_err", Err("DNSError", "exchange"),
                        EmptyInner)
    /\ call' = [call EXCEPT ![p] = FreshCall]
    /\ UNCHANGED <<config, net, shown, made, queue, conns, running>>

\* first_answer().await gives an error, mapped to Error::DNSError
AnswerErr(p) ==
    /\ pc[p] = "answer"
    /\ Return(p, "answer_err", Err("DNSError", "exchange"))
    /\ UNCHANGED <<config, net, shown, made, inner, queue, conns, running>>

\* an abandoned call that keeps the write guard it holds
Abandon_KeepLock(p) ==
    /\ pc[p] \in {"lock", "init", "rebuild", "answer"}
    /\ IF pc[p] = "lock"
         THEN /\ queue' = SelectSeq(queue, LAMBDA q : q # p)
              /\ UNCHANGED last
         ELSE /\ last' = Returned(call[p], msg[p], "abandoned", [tag |-> "Abandoned"], inner)
              /\ UNCHANGED queue
    /\ pc' = [pc EXCEPT ![p] = "idle"]
    /\ msg' = [msg EXCEPT ![p] = None]
    /\ call' = [call EXCEPT ![p] = FreshCall]
    /\ UNCHANGED <<config, net, shown, made, inner, holder, conns, running>>

\* an abandonment that can come after the driver of a build was spawned and before the
\* handles are stored
Abandon_AfterSpawn(p) ==
    /\ pc[p] \in {"lock", "init", "rebuild", "answer"}
    /\ IF pc[p] = "lock"
         THEN /\ queue' = SelectSeq(queue, LAMBDA q : q # p)
              /\ pc' = [pc EXCEPT ![p] = "idle"]
              /\ msg' = [msg EXCEPT ![p] = None]
              /\ call' = [call EXCEPT ![p] = FreshCall]
              /\ UNCHANGED <<holder, last, conns, running>>
         ELSE /\ Return(p, "abandoned", [tag |-> "Abandoned"])
              /\ UNCHANGED queue
              /\ IF pc[p] \in {"init", "rebuild"} /\ Len(conns) < MaxConns
                   THEN \/ UNCHANGED <<conns, running>>
                        \/ /\ conns' = Append(conns, stream_config(ClientCfg))
                           /\ running' = running \cup {Len(conns) + 1}
                   ELSE UNCHANGED <<conns, running>>
    /\ UNCHANGED <<config, net, shown, made, inner>>

\* the caller drops the future of exchange at one of its suspension points
Abandon(p) ==
    /\ pc[p] \in {"lock", "init", "rebuild", "answer"}
    /\ IF pc[p] = "lock"
         THEN /\ queue' = SelectSeq(queue, LAMBDA q : q # p)
              /\ pc' = [pc EXCEPT ![p] = "idle"]
              /\ msg' = [msg EXCEPT ![p] = None]
              /\ call' = [call EXCEPT ![p] = FreshCall]
              /\ UNCHANGED <<holder, last>>
         ELSE /\ Return(p, "abandoned", [tag |-> "Abandoned"])
              /\ UNCHANGED queue
    /\ UNCHANGED <<config, net, shown, made, inner, conns, running>>

\* a driver whose end is pushed into the Connection State: both handles are dropped
DriverFinish_Eager(k) ==
    /\ k \in running
    /\ running' = running \ {k}
    /\ inner' = IF inner.bg_handle = Some(k) THEN EmptyInner ELSE inner
    /\ UNCHANGED <<config, net, shown, made, holder, queue, pc, msg, conns, call, last>>

\* the background driver task of connection k ends
DriverFinish(k) ==
    /\ k \in running
    /\ running' = running \ {k}
    /\ UNCHANGED <<config, net, shown, made, inner, holder, queue, pc, msg, conns, call, last>>

\* dns_stream_builder applied to the configuration of a client just constructed
BuildStream ==
    /\ HasDnsClient
    /\ conns = <<>>
    /\ conns' = <<stream_config(ClientCfg)>>
    /\ UNCHANGED <<config, net, shown, made, inner, holder, queue, pc, msg, running, call, last>>

Next ==
    \/ \E p \in Callers, m \in Messages : Call(p, m)
    \/ \E p \in Callers : Acquire(p)
    \/ \E p \in Callers : Check(p)
    \/ \E p \in Callers : BuildOk(p)
    \/ \E p \in Callers : BuildErr(p)
    \/ \E p \in Callers : Send(p)
    \/ \E p \in Callers : AnswerOk(p)
    \/ \E p \in Callers : AnswerErr(p)
    \/ \E p \in Callers : Abandon(p)
    \/ \E k \in 1..MaxConns : DriverFinish(k)

\* the exchanges on a constructed client
Spec == Init /\ [][Next]_vars

\* the steps of the call of p that do not wait for the caller: the lock is granted to
\* the first waiter, the code between suspension points runs, and each Stream Builder
\* invocation and each answer wait ends
Progress(p) ==
    /\ WF_vars(Acquire(p))
    /\ WF_vars(Check(p))
    /\ WF_vars(BuildOk(p) \/ BuildErr(p))
    /\ WF_vars(Send(p))
    /\ WF_vars(AnswerOk(p) \/ AnswerErr(p))

\* the steps of Next in which every call carries the same message, one that has an id
NextOneMessage ==
    \/ \E p \in Callers : Call(p, [id |-> 1, content |-> "A"])
    \/ \E p \in Callers : Acquire(p)
    \/ \E p \in Callers : Check(p)
    \/ \E p \in Callers : BuildOk(p)
    \/ \E p \in Callers : BuildErr(p)
    \/ \E p \in Callers : Send(p)
    \/ \E p \in Callers : AnswerOk(p)
    \/ \E p \in Callers : AnswerErr(p)
    \/ \E p \in Callers : Abandon(p)
    \/ \E k \in 1..MaxConns : DriverFinish(k)

\* the exchanges on a constructed client, with a fair lock and waits that end; the
\* message plays no part in the lock or in the waits, so one message is explored
SpecFair == Init /\ [][NextOneMessage]_vars /\ \A p \in Callers : Progress(p)

NextNew ==
    \/ ParseNet
    \/ ShowNet
    \/ NewClient
    \/ BuildStream

\* the construction of a client from a configuration
SpecNew == InitNew /\ [][NextNew]_vars

(***************************************************************************)
(* Properties.                                                             *)
(***************************************************************************)
\* the caller is between acquiring the lock and returning
InCritical(p) == pc[p] \in {"check", "init", "rebuild", "send", "answer"}

\* C1: at most one exchange call at a time is between acquiring the Connection State
\* lock and returning, and such a call holds the lock all the way from its check to
\* its answer or error.
C1_MutualExclusion ==
    /\ \A p, q \in Callers : InCritical(p) /\ InCritical(q) => p = q
    /\ \A p \in Callers : InCritical(p) <=> holder = p

\* one call awaits its answer while another waits for the lock
C1_Witness ==
    \E p, q \in Callers :
        /\ pc[p] = "answer"
        /\ pc[q] = "lock"
        /\ holder = p

\* C2: the client handle and the driver handle are both present or both absent.
C2_HandlesTogether ==
    inner # NoInner => (inner.c.tag = "Some" <=> inner.bg_handle.tag = "Some")

\* both handles are present after a call was abandoned and an earlier one failed
C2_Witness ==
    /\ last.how = "abandoned"
    /\ last.prev = "answer_err"
    /\ inner.c.tag = "Some"
    /\ inner.bg_handle.tag = "Some"

\* every request handed to a session, by a call in progress or by the last returned call
SentRequests ==
    UNION {{[msg |-> msg[p].v, sent |-> call[p].sent[i]] : i \in 1..Len(call[p].sent)} :
              p \in Callers}
      \cup (IF last.how = "none" THEN {}
            ELSE {[msg |-> last.msg.v, sent |-> last.sent[i]] : i \in 1..Len(last.sent)})

\* C3: the id of a request handed to the session is never 0.
C3_IdNeverZero ==
    \A s \in SentRequests : s.sent.req.message.id # 0

\* C4: a call that finds the driver finished and whose build succeeds replaces both
\* handles by the new pair and sends its query on the new session, not on the old one.
C4_RebuildThenSendOnNew ==
    /\ \A p \in Callers :
          call[p].checked = "finished" /\ call[p].built # <<>> =>
              LET k == call[p].built[1]
              IN /\ Some(k) # call[p].inner0.c
                 /\ Some(k) # call[p].inner0.bg_handle
                 /\ inner = [c |-> Some(k), bg_handle |-> Some(k)]
                 /\ pc[p] \in {"send", "answer"}
                 /\ \A i \in 1..Len(call[p].sent) : call[p].sent[i].session = k
    /\ last.how # "none" /\ last.checked = "finished" /\ last.built # <<>> =>
          /\ last.how \in {"ok", "answer_err", "abandoned"}
          /\ last.inner1 = [c |-> Some(last.built[1]), bg_handle |-> Some(last.built[1])]
          /\ Len(last.sent) = 1
          /\ last.sent[1].session = last.built[1]

\* a call found the driver finished, rebuilt and has sent on the new session
C4_Witness ==
    \E p \in Callers :
        /\ call[p].checked = "finished"
        /\ call[p].inner0.c.tag = "Some"
        /\ pc[p] = "answer"
        /\ call[p].sent[1].session = call[p].built[1]
        /\ call[p].sent[1].session # call[p].inner0.c.v

\* C5, as stated: after a call whose Stream Builder invocation fails, the Connection
\* State holds no client handle and no driver handle.
C5_EmptyAfterFailedBuild ==
    last.how = "build_err" => last.inner1 = EmptyInner

\* C5, amended: after a failed first initialization the Connection State holds no
\* handle; after a failed rebuild it still holds the old client handle and the old
\* driver handle, whose task is finished.
C5_AfterFailedBuild ==
    last.how = "build_err" =>
        /\ last.checked \in {"absent", "finished"}
        /\ last.checked = "absent" => last.inner1 = EmptyInner
        /\ last.checked = "finished" =>
              /\ last.inner1 = last.inner0
              /\ last.inner1.c.tag = "Some"
              /\ last.inner1.bg_handle.tag = "Some"
              /\ is_finished(last.inner1.bg_handle.v)

\* a rebuild has failed
C5_Witness ==
    /\ last.how = "build_err"
    /\ last.checked = "finished"
    /\ inner = last.inner1

\* C6: a call that fails in the Stream Builder returns the error without sending, and
\* the next call invokes the Stream Builder again before it sends.
C6_FailedBuildThenBuildAgain ==
    /\ \A p \in Callers :
          pc[p] \in {"send", "answer"} => Len(call[p].built) = call[p].builds
    /\ last.how # "none" /\ Len(last.built) < last.builds =>
          /\ last.how \in {"build_err", "abandoned"}
          /\ last.sent = <<>>
    /\ last.how = "build_err" =>
          /\ last.ret.tag = "Err"
          /\ last.sent = <<>>
          /\ last.built = <<>>
    /\ \A p \in Callers :
          call[p].prev = "build_err" /\ pc[p] \in {"init", "rebuild", "send", "answer"} =>
              /\ call[p].builds = 1
              /\ pc[p] \in {"send", "answer"} => Len(call[p].built) = 1
    /\ last.how # "none" /\ last.prev = "build_err" =>
          /\ last.builds = 1
          /\ last.sent # <<>> => Len(last.built) = 1

\* the call after a failed rebuild has built a connection and sent on it
C6_Witness ==
    \E p \in Callers :
        /\ call[p].prev = "build_err"
        /\ call[p].checked = "finished"
        /\ pc[p] = "answer"
        /\ call[p].sent[1].session = call[p].built[1]

\* C7, as stated: after a call that returns an error, the next call rebuilds the
\* connection before it sends.
C7_RebuildAfterAnyError ==
    \A p \in Callers :
        call[p].prev \in {"build_err", "answer_err"} /\ pc[p] \in {"send", "answer"} =>
            call[p].built # <<>>

\* C7, amended: after a call that returns an error, the next call rebuilds before it
\* sends exactly when its check finds no connection or a finished driver, which is
\* always so after a construction failure; after a send or answer failure with the
\* driver still running it sends on the connection it found.
C7_RebuildAfterError ==
    \A p \in Callers :
        call[p].prev \in {"build_err", "answer_err"} /\ pc[p] \in {"send", "answer"} =>
            /\ call[p].prev = "build_err" => call[p].checked # "running"
            /\ call[p].checked \in {"absent", "finished"} <=> call[p].built # <<>>
            /\ call[p].checked = "running" =>
                  /\ inner = call[p].inner0
                  /\ \A i \in 1..Len(call[p].sent) :
                        Some(call[p].sent[i].session) = call[p].inner0.c

\* the call after a failed answer wait sends on the connection it found
C7_Witness ==
    \E p \in Callers :
        /\ call[p].prev = "answer_err"
        /\ call[p].checked = "running"
        /\ pc[p] = "answer"
        /\ Some(call[p].sent[1].session) = call[p].inner0.c

\* C8: a message with a nonzero id is handed to the session with that id and the
\* same content; the id changes only when it is 0.
C8_NonzeroIdUnchanged ==
    \A s \in SentRequests :
        /\ s.msg.id # 0 => s.sent.req.message = s.msg
        /\ s.sent.req.message.content = s.msg.content
        /\ s.sent.req.message.id # s.msg.id => s.msg.id = 0

\* a message with a nonzero id has been sent
C8_Witness ==
    \E p \in Callers :
        /\ pc[p] = "answer"
        /\ msg[p].v.id # 0
        /\ call[p].sent[1].req.message.id = msg[p].v.id

\* the transport strings that name a kind
CanonicalNetStrings == {"UDP", "TCP", "DoT", "DoH", "DHCP"}

\* new_client has run for a kind other than DHCP
MadeNonDhcp ==
    /\ made.tag = "Some"
    /\ net.v.v # "Dhcp"

\* new_client returned a DnsClient for the address ip:port with an empty Connection State
MadeClientAt(ip, port) ==
    /\ made.v.result.tag = "Ok"
    /\ made.v.result.v.type = "DnsClient"
    /\ made.v.result.v.cfg.addr = [ip |-> ip, port |-> port]
    /\ made.v.result.v.inner = EmptyInner
    /\ inner = EmptyInner

\* C9: for the kinds other than DHCP, new_client succeeds with the resolver's ip and the
\* configured port when the resolver gives Some(ip), whatever the host; fails when the
\* resolver gives None or an error; without a resolver succeeds with the parsed ip of a
\* literal host and fails for any other host.  The resolver is asked with prefer-IPv4
\* false, and a constructed client has an empty Connection State.
C9_BootstrapResolution ==
    MadeNonDhcp =>
        IF config.r.tag = "Some"
          THEN /\ made.v.calls = <<[host |-> config.host, prefer_v4 |-> FALSE]>>
               /\ LET ans == config.r.v.answer
                  IN IF ans.tag = "Ok" /\ ans.v.tag = "Some"
                       THEN MadeClientAt(ans.v.v, config.port)
                       ELSE /\ made.v.result.tag = "Err"
                            /\ inner = NoInner
          ELSE /\ made.v.calls = <<>>
               /\ IF config.host = HostLiteral
                    THEN MadeClientAt(IpOfLiteral, config.port)
                    ELSE /\ made.v.result.tag = "Err"
                         /\ inner = NoInner

\* a client was made at the resolver's ip although the host is another literal ip
C9_Witness ==
    /\ MadeNonDhcp
    /\ config.r = Some([answer |-> Ok(Some(IpOther))])
    /\ config.host = HostLiteral
    /\ MadeClientAt(IpOther, config.port)

\* C10: parsing one of "UDP", "TCP", "DoT", "DoH", "DHCP" and displaying the result gives
\* the same string, displaying a kind and parsing it gives the same kind, and parsing
\* any other string, another letter case included, fails.
C10_KindRoundTrip ==
    /\ net.tag = "Some" =>
          /\ config.transport \in CanonicalNetStrings <=> net.v.tag = "Ok"
          /\ config.transport \notin CanonicalNetStrings => net.v.tag = "Err"
          /\ net.v.tag = "Ok" => net.v.v \in DNSNetMode
    /\ shown.tag = "Some" =>
          /\ shown.v = config.transport
          /\ DNSNetMode_from_str(shown.v) = net.v

\* "DoT" was parsed and displayed, and it is not the kind of "DoH"
C10_Witness ==
    /\ config.transport = "DoT"
    /\ shown = Some("DoT")
    /\ net.v = Ok("DoT")

\* the text of each ip of the model, written out
IpText(ip) ==
    IF ip = IpOfLiteral THEN <<"1", ".", "2", ".", "3", ".", "4">>
    ELSE <<"8", ".", "8", ".", "4", ".", "2", "5", "5">>

\* the connection was built with certificate hostname verification disabled
VerificationDisabled(conn) ==
    /\ conn.tls.tag = "Some"
    /\ ~conn.tls.v.verify_hostname

\* C11: a connection is built with hostname verification disabled exactly when the kind
\* is DNS-over-HTTPS and the configured server name is, as text, the string form of the
\* resolved ip; DNS-over-TLS keeps verification whatever the server name.
C11_VerificationDisabledOnlyDoHByIp ==
    \A i \in 1..Len(conns) :
        /\ VerificationDisabled(conns[i]) <=>
              /\ net.v.v = "DoH"
              /\ config.host = IpText(ClientCfg.addr.ip)
        /\ net.v.v \in {"DoT", "DoH"} <=> conns[i].tls.tag = "Some"
        /\ net.v.v = "DoT" => conns[i].tls.v.verify_hostname

\* a DNS-over-TLS connection was built for a server name that is the resolved ip, verified
C11_WitnessDoT ==
    /\ conns # <<>>
    /\ net.v.v = "DoT"
    /\ config.host = HostLiteral
    /\ ClientCfg.addr.ip = IpOfLiteral
    /\ conns[1].tls.v.verify_hostname

\* a DNS-over-HTTPS connection was built for a server name that is the resolved ip
C11_Witness ==
    /\ conns # <<>>
    /\ net.v.v = "DoH"
    /\ config.host = HostLiteral
    /\ ClientCfg.addr.ip = IpOfLiteral
    /\ VerificationDisabled(conns[1])

\* every error returned so far: by from_str, by new_client, by the last exchange
ReturnedErrors ==
    (IF net.tag = "Some" /\ net.v.tag = "Err" THEN {net.v} ELSE {})
      \cup (IF made.tag = "Some" /\ made.v.result.tag = "Err" THEN {made.v.result} ELSE {})
      \cup (IF last.how # "none" /\ last.ret.tag = "Err" THEN {last.ret} ELSE {})

\* C12, as stated: every error returned by new_client or exchange is the DNS error kind
\* wrapping a message.
C12_AllErrorsAreDnsError ==
    \A e \in ReturnedErrors : e.kind = "DNSError" /\ e.msg # ""

\* C12, amended: an unrecognized transport string, a host that is no literal ip (no
\* resolver), a Stream Builder failure and a send or answer failure are the DNS error
\* kind wrapping a message; a resolver that returns no address gives the InvalidConfig
\* kind, and a resolver that fails gives an untyped error carrying
\* "resolve hostname failure".
C12_ErrorKinds ==
    /\ \A e \in ReturnedErrors : e.msg # ""
    /\ net.tag = "Some" /\ net.v.tag = "Err" => net.v.kind = "DNSError"
    /\ last.how # "none" /\ last.ret.tag = "Err" => last.ret.kind = "DNSError"
    /\ made.tag = "Some" /\ made.v.result.tag = "Err" =>
          IF config.r.tag = "None"
            THEN made.v.result.kind = "DNSError"
            ELSE IF config.r.v.answer.tag = "Err"
              THEN /\ made.v.result.kind = "anyhow"
                   /\ made.v.result.msg = "resolve hostname failure"
              ELSE made.v.result.kind = "InvalidConfig"

\* new_client has failed because the resolver failed
C12_Witness ==
    /\ made.tag = "Some"
    /\ config.r.tag = "Some"
    /\ config.r.v.answer.tag = "Err"
    /\ made.v.result.tag = "Err"
    /\ made.v.result.kind = "anyhow"

\* C13: one exchange call invokes the Stream Builder at most once and sends at most
\* once; a failed send or answer wait is returned without a rebuild and without a second
\* send, also when the driver ended after the check of that call.
C13_OneBuildOneSend ==
    /\ \A p \in Callers :
          /\ call[p].builds <= 1
          /\ Len(call[p].built) <= call[p].builds
          /\ Len(call[p].sent) <= 1
          /\ pc[p] = "answer" <=> Len(call[p].sent) = 1
    /\ last.how # "none" =>
          /\ last.builds <= 1
          /\ Len(last.built) <= last.builds
          /\ Len(last.sent) <= 1
    /\ last.how = "answer_err" =>
          /\ Len(last.sent) = 1
          /\ last.ret.tag = "Err"
          /\ last.checked = "running" =>
                /\ last.builds = 0
                /\ last.inner1 = last.inner0
                /\ Some(last.sent[1].session) = last.inner0.c

\* the driver ended after the check of a call that has sent once and not built
C13_Witness ==
    \E p \in Callers :
        /\ pc[p] = "answer"
        /\ call[p].checked = "running"
        /\ is_finished(inner.bg_handle.v)
        /\ call[p].builds = 0
        /\ Len(call[p].sent) = 1

\* C14: a call invokes the Stream Builder exactly when its check finds no connection or
\* a finished driver; a call that finds a running driver leaves both handles as they
\* were, whether its query succeeds or fails.
C14_BuildIffAbsentOrFinished ==
    /\ \A p \in Callers :
          call[p].checked # "none" =>
              /\ call[p].builds = 1 <=>
                    call[p].inner0.c.tag = "None" \/ call[p].checked = "finished"
              /\ call[p].builds = 0 <=> call[p].checked = "running"
              /\ call[p].checked = "running" => inner = call[p].inner0
    /\ last.how # "none" =>
          /\ last.builds = 1 <=> last.inner0.c.tag = "None" \/ last.checked = "finished"
          /\ last.builds = 0 <=> last.checked = "running"
          /\ last.checked = "running" =>
                /\ last.how \in {"ok", "answer_err", "abandoned"}
                /\ last.inner1 = last.inner0

\* a call that found a running driver has failed and left the handles as they were
C14_Witness ==
    /\ last.how = "answer_err"
    /\ last.checked = "running"
    /\ last.builds = 0
    /\ last.inner1 = last.inner0
    /\ inner = last.inner0

\* the callers whose call is inside an invocation of the Stream Builder
Building == {p \in Callers : pc[p] \in {"init", "rebuild"}}

\* C15: builds and sends on one client never overlap: at most one Stream Builder
\* invocation is in progress, no query is sent or awaited while one is, and a call that
\* comes after a rebuild and finds the new driver running does not build but sends on
\* the rebuilt connection.
C15_NoBuildSendRace ==
    /\ Cardinality(Building) <= 1
    /\ Building # {} => \A q \in Callers : pc[q] \notin {"check", "send", "answer"}
    /\ \A p \in Callers :
          /\ Len(call[p].sent) > 0 => pc[p] = "answer" /\ Building = {}
          /\ call[p].checked = "running" =>
                /\ call[p].built = <<>>
                /\ call[p].builds = 0
                /\ \A i \in 1..Len(call[p].sent) :
                      Some(call[p].sent[i].session) = call[p].inner0.c
          /\ call[p].entered /\ call[p].prev \in {"ok", "answer_err", "abandoned"}
               /\ last.checked = "finished" /\ last.built # <<>>
               /\ call[p].checked = "running" =>
                    /\ call[p].inner0.c = Some(last.built[1])
                    /\ inner.bg_handle = Some(last.built[1])

\* one call rebuilt while another was queued, which now sends on the rebuilt connection
C15_Witness ==
    \E p \in Callers :
        /\ last.how # "none"
        /\ last.checked = "finished"
        /\ last.built # <<>>
        /\ call[p].checked = "running"
        /\ pc[p] = "answer"
        /\ call[p].sent[1].session = last.built[1]

\* a step in which a driver task ends
DriverEnds == running' # running /\ running' \subseteq running

\* C16: new_client leaves the Connection State empty and builds nothing; a connection
\* is built only inside an exchange call that is at its build; and the end of a driver
\* task changes no handle, builds nothing and moves no call.
C16_LazyBuildLazyDetection ==
    /\ inner = EmptyInner /\ conns = <<>> /\ running = {}
    /\ [][/\ DriverEnds =>
                /\ inner' = inner
                /\ conns' = conns
                /\ pc' = pc
                /\ call' = call
                /\ holder' = holder
          /\ conns' # conns =>
                \E p \in Callers :
                    /\ holder = p
                    /\ pc[p] \in {"init", "rebuild"}
                    /\ call'[p].built = <<Len(conns')>>
                    /\ running' = running \cup {Len(conns')}
          /\ inner' # inner => conns' # conns]_vars

\* the driver of the current connection has ended, no call is in progress, and the
\* handles of that connection are still in place
C16_Witness ==
    /\ inner.bg_handle.tag = "Some"
    /\ is_finished(inner.bg_handle.v)
    /\ inner.c = inner.bg_handle
    /\ Len(conns) = inner.bg_handle.v
    /\ holder = 0
    /\ \A p \in Callers : pc[p] = "idle"

\* C17: every way out of exchange releases the lock: a caller that is not inside a call
\* does not hold it, and the lock is free whenever nobody is inside.  With a fair lock
\* and Stream Builder invocations and answer waits that end, every call waiting for the
\* lock gets it, and every call that has it returns.
C17_LockReleasedAndProgress ==
    /\ [](\A p \in Callers : pc[p] \in {"idle", "lock"} => holder # p)
    /\ []((\A p \in Callers : ~InCritical(p)) => holder = 0)
    /\ \A p \in Callers : (pc[p] = "lock") ~> (pc[p] # "lock")
    /\ \A p \in Callers : InCritical(p) ~> (pc[p] = "idle")

\* a caller waits for the lock behind a call that follows a failed one
C17_Witness ==
    \E p, q \in Callers :
        /\ pc[q] = "lock"
        /\ holder = p
        /\ call[p].prev \in {"build_err", "answer_err", "abandoned"}
        /\ last.how \in {"build_err", "answer_err", "abandoned"}

\* C18: for the kind DHCP, new_client returns the DHCP strategy made from the host field,
\* whatever the host and the resolver are: the resolver is not called, the host is not
\* parsed, the result is never an error, and it carries no Transport Descriptor and no
\* Connection State.
C18_DhcpDelegates ==
    (made.tag = "Some" /\ net.v.v = "Dhcp") =>
        /\ made.v.result = Ok([type |-> "DhcpClient", iface |-> config.host])
        /\ made.v.calls = <<>>
        /\ inner = NoInner
        /\ conns = <<>>

\* a DHCP client was made for a host that is no ip, without a resolver
C18_Witness ==
    /\ made.tag = "Some"
    /\ net.v.v = "Dhcp"
    /\ config.host = HostDomain
    /\ parse_ip(config.host).tag = "Err"
    /\ config.r = None
    /\ made.v.result.tag = "Ok"

\* a DHCP client was made although a resolver was supplied
C18_WitnessResolver ==
    /\ made.tag = "Some"
    /\ net.v.v = "Dhcp"
    /\ config.r # None
    /\ made.v.result.tag = "Ok"

\* C19: when exchange is about to send, a client handle is there, and no call has ended
\* in the failure of the unwrap of the client handle.
C19_ClientPresentAtSend ==
    /\ \A p \in Callers : pc[p] = "send" => inner.c.tag = "Some"
    /\ last.how # "panic"

\* a call is about to send on the connection it built, after a call that was abandoned
\* while the Stream Builder ran
C19_Witness ==
    \E p \in Callers :
        /\ pc[p] = "send"
        /\ call[p].prev = "abandoned"
        /\ last.how = "abandoned"
        /\ last.builds = 1
        /\ last.built = <<>>
        /\ Len(call[p].built) = 1
        /\ inner.c.tag = "Some"

\* a call is about to send without a build: the driver handle alone told it not to build
C19_WitnessDriverAlone ==
    \E p \in Callers :
        /\ pc[p] = "send"
        /\ call[p].checked = "running"
        /\ call[p].builds = 0
        /\ inner.c.tag = "Some"

\* a call is about to send on the connection it built, after a call that failed in the
\* Stream Builder
C19_WitnessFailedBuild ==
    \E p \in Callers :
        /\ pc[p] = "send"
        /\ call[p].prev = "build_err"
        /\ Len(call[p].built) = 1
        /\ inner.c.tag = "Some"

\* the drivers that run and that Inner does not refer to
Orphans == {k \in running : inner.bg_handle # Some(k)}

\* C20: at most one driver spawned for the client runs, and it is the one Inner refers to;
\* while the Stream Builder is invoked, no driver runs.
C20_AtMostOneDriver ==
    /\ Cardinality(running) <= 1
    /\ Orphans = {}
    /\ \A p \in Callers : pc[p] \in {"init", "rebuild"} => running = {}

\* the handles were replaced: the first driver has ended, the second one runs and is the
\* one Inner refers to
C20_Witness ==
    /\ Len(conns) = 2
    /\ running = {2}
    /\ inner.bg_handle = Some(2)
    /\ inner.c = Some(2)

\* C21: a call whose Stream Builder invocation fails leaves the Connection State as it
\* found it.  While the Stream Builder runs the Connection State is the one the call
\* found; when the call has returned the error it is still that one, and stays so while
\* the lock is free: no handle if the call found none, and the old client handle and
\* the old driver handle, whose task is finished, if the call found a finished driver.
C21_FailedBuildFrame ==
    /\ \A p \in Callers : pc[p] \in {"init", "rebuild"} => inner = call[p].inner0
    /\ last.how = "build_err" =>
          /\ last.inner1 = last.inner0
          /\ holder = 0 => inner = last.inner0
          /\ last.checked = "absent" => last.inner0 = EmptyInner
          /\ last.checked = "finished" =>
                /\ last.inner0.c.tag = "Some"
                /\ last.inner0.bg_handle.tag = "Some"
                /\ last.inner0.c = last.inner0.bg_handle
                /\ is_finished(last.inner0.bg_handle.v)

\* a rebuild has failed and nobody has taken the lock since: the handles of the old
\* connection are in place
C21_Witness ==
    /\ last.how = "build_err"
    /\ last.checked = "finished"
    /\ last.builds = 1
    /\ holder = 0
    /\ inner = last.inner0
    /\ inner.c = Some(1)
    /\ inner.bg_handle = Some(1)
    /\ 1 \notin running

\* a first initialization has failed and nobody has taken the lock since: no handle
C21_WitnessAbsent ==
    /\ last.how = "build_err"
    /\ last.checked = "absent"
    /\ holder = 0
    /\ inner = EmptyInner

====
